---- MODULE Spec2Model ----
(***************************************************************************)
(* A model of the markdown converter: the converter registry, the          *)
(* candidate-extension resolver, the dispatch engine (_convert), the three *)
(* source adapters (convertLocal, convertUrl, convertResponse) and the     *)
(* command line front end (convertSource).                                 *)
(*                                                                         *)
(* A JavaScript string is a sequence of one-character strings, so that     *)
(* trim, split, toLowerCase, startsWith and the regular expressions of the *)
(* code are computed, not assumed.                                         *)
(***************************************************************************)
EXTENDS Integers, Sequences, FiniteSets, TLC

(* ------------------------------------------------------------------ *)
(* Bounds of the model                                                 *)
(* ------------------------------------------------------------------ *)

\* how many converters the caller registers on top of the five built-ins
MaxCustom == 2
\* the longest text the normalization is applied to
MaxLen == 5
\* how many times in a row the normalization is applied to a text
MaxApplications == 2

(* ------------------------------------------------------------------ *)
(* Values that are not strings                                         *)
(* ------------------------------------------------------------------ *)

\* an absent property / the JavaScript value undefined
Undefined == <<"undefined">>
\* the JavaScript value null (the no-extension sentinel of _convert)
Null == <<"null">>
\* the JavaScript value false (what mime-types' lookup answers for no match)
False == <<"false">>
\* the empty string
Empty == <<>>

\* JavaScript truthiness of an optional string
Truthy(v) == v # Undefined /\ v # Null /\ v # False /\ v # Empty

\* v || '' for an optional string
OrEmpty(v) == IF Truthy(v) THEN v ELSE Empty

(* ------------------------------------------------------------------ *)
(* String constants of the program and of the inputs                   *)
(* ------------------------------------------------------------------ *)

DotHtml == <<".", "h", "t", "m", "l">>
DotHtm == <<".", "h", "t", "m">>
DotPdf == <<".", "p", "d", "f">>
SchemeHttp == <<"h", "t", "t", "p", ":", "/", "/">>
SchemeHttps == <<"h", "t", "t", "p", "s", ":", "/", "/">>
SchemeFile == <<"f", "i", "l", "e", ":", "/", "/">>
YouTubePrefix == <<"h", "t", "t", "p", "s", ":", "/", "/", "w", "w", "w", ".", "y", "o", "u", "t", "u", "b", "e", ".", "c", "o", "m", "/", "w", "a", "t", "c", "h", "?">>
WikipediaSuffix == <<".", "w", "i", "k", "i", "p", "e", "d", "i", "a", ".", "o", "r", "g", "/">>
FilenameEq == <<"f", "i", "l", "e", "n", "a", "m", "e", "=">>
Placeholder == <<"_", "_", "p", "l", "a", "c", "e", "h", "o", "l", "d", "e", "r">>
TextSlash == <<"t", "e", "x", "t", "/">>
TextHtml == <<"t", "e", "x", "t", "/", "h", "t", "m", "l">>
TextPlain == <<"t", "e", "x", "t", "/", "p", "l", "a", "i", "n">>
AppPdf == <<"a", "p", "p", "l", "i", "c", "a", "t", "i", "o", "n", "/", "p", "d", "f">>
AppPhp == <<"a", "p", "p", "l", "i", "c", "a", "t", "i", "o", "n", "/", "x", "-", "h", "t", "t", "p", "d", "-", "p", "h", "p">>

\* inputs: extension overrides
UpperDotHtm == <<".", "H", "T", "M">>
SpacedDotHtml == <<" ", ".", "h", "t", "m", "l">>
\* inputs: local paths
PathHtml == <<"a", ".", "h", "t", "m", "l">>
PathZzz == <<"a", ".", "z", "z", "z">>
PathPdf == <<"a", ".", "p", "d", "f">>
PathNoExt == <<"n", "o", "t", "e", "s">>
\* inputs: URLs
UrlPhp == <<"h", "t", "t", "p", "s", ":", "/", "/", "e", "x", ".", "o", "r", "g", "/", "i", ".", "p", "h", "p">>
UrlWikiPhp == <<"h", "t", "t", "p", "s", ":", "/", "/", "e", "n", ".", "w", "i", "k", "i", "p", "e", "d", "i", "a", ".", "o", "r", "g", "/", "w", "/", "i", ".", "p", "h", "p">>
UrlHtml == <<"h", "t", "t", "p", "s", ":", "/", "/", "e", "x", ".", "o", "r", "g", "/", "a", ".", "h", "t", "m", "l">>
UrlPdf == <<"h", "t", "t", "p", "s", ":", "/", "/", "e", "x", ".", "o", "r", "g", "/", "a", ".", "p", "d", "f">>
UrlYouTube == <<"h", "t", "t", "p", "s", ":", "/", "/", "w", "w", "w", ".", "y", "o", "u", "t", "u", "b", "e", ".", "c", "o", "m", "/", "w", "a", "t", "c", "h", "?", "v", "=", "1">>
\* inputs: header values
TextHtmlCharset == <<"t", "e", "x", "t", "/", "h", "t", "m", "l", ";", " ", "c", "h", "a", "r", "s", "e", "t", "=", "u", "t", "f", "-", "8">>
BareHtml == <<"h", "t", "m", "l">>
\* inputs: what converters produce
TextPlainBody == <<"h", "i">>
TextBlankRuns == <<"a", " ", "\n", "\n", " ", "\n", "\n", "b", "\t">>
TextCrLf == <<"a", "\r", "\n", "\r", "\n", "\r", "\n", "b", "\n">>
TextWhitespaceOnly == <<" ", "\n", "\t", "\r", "\n", "\n", " ">>
Attachment == <<"a", "t", "t", "a", "c", "h", "m", "e", "n", "t", ";", " ", "f", "i", "l", "e", "n", "a", "m", "e", "=", "\"", "a", ".", "h", "t", "m", "l", "\"">>

(* ------------------------------------------------------------------ *)
(* String functions of JavaScript and of the libraries the code calls  *)
(* ------------------------------------------------------------------ *)

\* s.slice(k - 1): the suffix of s that starts at position k (1-based)
From(s, k) == IF k > Len(s) THEN <<>> ELSE SubSeq(s, k, Len(s))

\* s.startsWith(p)
StartsWith(s, p) == Len(s) >= Len(p) /\ SubSeq(s, 1, Len(p)) = p

\* the positions of the character c in s
Positions(s, c) == {k \in 1..Len(s) : s[k] = c}

Max(S) == CHOOSE x \in S : \A y \in S : y <= x
Min(S) == CHOOSE x \in S : \A y \in S : x <= y

\* s.includes(c), for one character
Includes(s, c) == Positions(s, c) # {}

\* s.split(c): pathParts.length > 1
SplitHasParts(s, c) == Includes(s, c)

\* s.split(c): pathParts[pathParts.length - 1]
SplitLast(s, c) == IF Includes(s, c) THEN From(s, Max(Positions(s, c)) + 1) ELSE s

\* s.split(c)[0]
SplitFirst(s, c) == IF Includes(s, c) THEN SubSeq(s, 1, Min(Positions(s, c)) - 1) ELSE s

WhiteSpace == {" ", "\t", "\n", "\r"}

\* s.trim()
Trim(s) ==
    LET keep == {k \in 1..Len(s) : s[k] \notin WhiteSpace}
    IN IF keep = {} THEN <<>> ELSE SubSeq(s, Min(keep), Max(keep))

UpperCase == [c \in {"H", "T", "M", "L", "P", "D", "F"} |->
    CASE c = "H" -> "h" [] c = "T" -> "t" [] c = "M" -> "m" [] c = "L" -> "l"
      [] c = "P" -> "p" [] c = "D" -> "d" [] c = "F" -> "f"]

\* s.toLowerCase(), on the alphabet of the inputs
ToLowerCase(s) == [k \in 1..Len(s) |-> IF s[k] \in DOMAIN UpperCase THEN UpperCase[s[k]] ELSE s[k]]

Letters == {"a", "b", "c", "d", "e", "f", "g", "h", "i", "j", "k", "l", "m", "n", "o",
            "p", "q", "r", "s", "t", "u", "v", "w", "x", "y", "z",
            "H", "T", "M", "L", "P", "D", "F"}

\* filename.replace(/['"]/g, '')
RemoveQuotes(s) == SelectSeq(s, LAMBDA c : c \notin {"'", "\""})

\* node's path.extname: from the last '.' of the last path segment, '' when
\* the segment has no '.' or only a leading one
Extname(p) ==
    LET base == SplitLast(p, "/")
        dots == Positions(base, ".")
    IN IF dots = {} \/ Max(dots) = 1 THEN <<>> ELSE From(base, Max(dots))

\* mime-db, restricted to the extensions of the inputs
MimeTypes(ext) ==
    CASE ext = <<"h", "t", "m", "l">> -> TextHtml
      [] ext = <<"h", "t", "m">> -> TextHtml
      [] ext = <<"t", "x", "t">> -> TextPlain
      [] ext = <<"p", "d", "f">> -> AppPdf
      [] ext = <<"p", "h", "p">> -> AppPhp
      [] OTHER -> False

\* mime-types' lookup(path): the MIME type of a path's extension, false if none
Lookup(path) ==
    IF ~Truthy(path) THEN False
    ELSE LET extension == From(ToLowerCase(Extname(<<"x", ".">> \o path)), 2)
         IN IF extension = <<>> THEN False ELSE MimeTypes(extension)

\* new URL(u) succeeds: u is an absolute URL
UrlParses(u) ==
    /\ u # Undefined
    /\ \E scheme \in {SchemeHttp, SchemeHttps, SchemeFile} : StartsWith(u, scheme)

\* new URL(u).pathname, for a u that parses
UrlPathname(u) ==
    LET scheme == CHOOSE sc \in {SchemeHttp, SchemeHttps, SchemeFile} : StartsWith(u, sc)
        rest == From(u, Len(scheme) + 1)
        noQuery == SplitFirst(SplitFirst(rest, "?"), "#")
    IN IF Includes(noQuery, "/") THEN From(noQuery, Min(Positions(noQuery, "/"))) ELSE <<"/">>

\* contentDisposition.match(/filename=([^;]+)/): the capture group, Null for no match
FilenameMatch(cd) ==
    LET starts == {k \in 1..Len(cd) :
                      /\ StartsWith(From(cd, k), FilenameEq)
                      /\ k + Len(FilenameEq) <= Len(cd)
                      /\ cd[k + Len(FilenameEq)] # ";"}
    IN IF starts = {} THEN Null
       ELSE SplitFirst(From(cd, Min(starts) + Len(FilenameEq)), ";")

\* url.match(/^https?:\/\/[a-zA-Z]{2,3}\.wikipedia\.org\//)
MatchesWikipedia(url) ==
    \E scheme \in {SchemeHttp, SchemeHttps} : \E n \in 2..3 :
        /\ StartsWith(url, scheme)
        /\ Len(url) >= Len(scheme) + n
        /\ \A k \in 1..n : url[Len(scheme) + k] \in Letters
        /\ StartsWith(From(url, Len(scheme) + n + 1), WikipediaSuffix)

\* line.trimRight()
TrimRight(s) ==
    LET keep == {k \in 1..Len(s) : s[k] \notin WhiteSpace}
    IN IF keep = {} THEN <<>> ELSE SubSeq(s, 1, Max(keep))

\* text.split(/\r?\n/): the lines, a "\r" right before a "\n" being part of
\* the separator
RECURSIVE SplitLines(_)
SplitLines(t) ==
    IF ~Includes(t, "\n") THEN <<t>>
    ELSE LET n == Min(Positions(t, "\n"))
             first == IF n > 1 /\ t[n - 1] = "\r" THEN SubSeq(t, 1, n - 2)
                      ELSE SubSeq(t, 1, n - 1)
         IN <<first>> \o SplitLines(From(t, n + 1))

\* lines.join('\n')
RECURSIVE JoinLines(_)
JoinLines(lines) ==
    IF Len(lines) = 1 THEN lines[1]
    ELSE lines[1] \o <<"\n">> \o JoinLines(Tail(lines))

\* text.replace(/\n{3,}/g, '\n\n')
RECURSIVE CollapseNewlines(_)
CollapseNewlines(t) ==
    IF t = <<>> THEN <<>>
    ELSE IF t[1] # "\n" THEN <<t[1]>> \o CollapseNewlines(Tail(t))
    ELSE LET other == {k \in 1..Len(t) : t[k] # "\n"}
             run == IF other = {} THEN Len(t) ELSE Min(other) - 1
         IN (IF run >= 3 THEN <<"\n", "\n">> ELSE SubSeq(t, 1, run))
            \o CollapseNewlines(From(t, run + 1))

\* a result returned as the converter produced it
Normalize_Skipped(t) == t

\* a normalization that collapses the newline runs before it trims the lines
Normalize_CollapseFirst(t) ==
    LET lines == SplitLines(CollapseNewlines(t))
    IN JoinLines([k \in 1..Len(lines) |-> TrimRight(lines[k])])

\* _convert: the normalization of result.textContent
Normalize(t) ==
    CollapseNewlines(JoinLines([k \in 1..Len(SplitLines(t)) |-> TrimRight(SplitLines(t)[k])]))

(* ------------------------------------------------------------------ *)
(* Converters                                                          *)
(* ------------------------------------------------------------------ *)

Builtin(kind) == [kind |-> kind, id |-> 0]
\* a converter registered by the caller; its behaviour is opaque
Custom(k) == [kind |-> "Custom", id |-> k]
NoConverter == [kind |-> "none", id |-> 0]

PlainTextConverter == Builtin("PlainText")
HtmlConverter == Builtin("Html")
WikipediaConverter == Builtin("Wikipedia")
YouTubeConverter == Builtin("YouTube")
PdfConverter == Builtin("Pdf")

\* what readFile(localPath) does on the file: "missing" fails, the rest succeed
Readable(file) == file # "missing"

IsHtmlExtension(hints) == ToLowerCase(OrEmpty(hints.fileExtension)) \in {DotHtml, DotHtm}

\* PdfConverter.convert: null unless the hint is .pdf; throws if the file
\* cannot be read or parsed
PdfConvert(hints, file) ==
    IF ToLowerCase(OrEmpty(hints.fileExtension)) # DotPdf THEN "null"
    ELSE IF file = "pdf" THEN "result" ELSE "throw"

\* YouTubeConverter.convert
YouTubeConvert(hints, file) ==
    IF ~IsHtmlExtension(hints) THEN "null"
    ELSE IF ~StartsWith(OrEmpty(hints.url), YouTubePrefix) THEN "null"
    ELSE IF Readable(file) THEN "result" ELSE "throw"

\* WikipediaConverter.convert
WikipediaConvert(hints, file) ==
    IF ~IsHtmlExtension(hints) THEN "null"
    ELSE IF ~MatchesWikipedia(OrEmpty(hints.url)) THEN "null"
    ELSE IF Readable(file) THEN "result" ELSE "throw"

\* HtmlConverter.convert
HtmlConvert(hints, file) ==
    IF ~IsHtmlExtension(hints) THEN "null"
    ELSE IF Readable(file) THEN "result" ELSE "throw"

\* PlainTextConverter.convert
PlainTextConvert(hints, file) ==
    LET contentType == Lookup(Placeholder \o OrEmpty(hints.fileExtension))
    IN IF ~Truthy(contentType) THEN "null"
       ELSE IF ~StartsWith(contentType, TextSlash) THEN "null"
       ELSE IF Readable(file) THEN "result" ELSE "throw"

\* the outcomes converter.convert(localPath, hints) can have
Behaviour(converter, hints, file) ==
    CASE converter = PdfConverter -> {PdfConvert(hints, file)}
      [] converter = YouTubeConverter -> {YouTubeConvert(hints, file)}
      [] converter = WikipediaConverter -> {WikipediaConvert(hints, file)}
      [] converter = HtmlConverter -> {HtmlConvert(hints, file)}
      [] converter = PlainTextConverter -> {PlainTextConvert(hints, file)}
      [] OTHER -> {"result", "null", "throw"}

(* ------------------------------------------------------------------ *)
(* The registry                                                        *)
(* ------------------------------------------------------------------ *)

\* a registry that appends: this.pageConverters.push(converter)
Unshift_Push(list, converter) == Append(list, converter)

\* registerPageConverter: this.pageConverters.unshift(converter)
Unshift(list, converter) == <<converter>> \o list

\* a constructor that registers the HTML converter after the Wikipedia converter
ConstructorOrder_HtmlAfterWikipedia ==
    <<PlainTextConverter, WikipediaConverter, HtmlConverter, YouTubeConverter, PdfConverter>>

\* the order in which the constructor registers the built-ins
ConstructorOrder ==
    <<PlainTextConverter, HtmlConverter, WikipediaConverter, YouTubeConverter, PdfConverter>>

RECURSIVE RegisterAll(_, _)
RegisterAll(list, toRegister) ==
    IF toRegister = <<>> THEN list
    ELSE RegisterAll(Unshift(list, Head(toRegister)), Tail(toRegister))

\* the registry of a freshly constructed MarkdownConverter
Constructor == RegisterAll(<<>>, ConstructorOrder)

(* ------------------------------------------------------------------ *)
(* The candidate-extension resolver                                    *)
(* ------------------------------------------------------------------ *)

\* an _appendExt that puts the extension in front: extensions.unshift(trimmedExt)
AppendExt_Prepend(extensions, ext) ==
    IF ext = Null \/ ext = Undefined THEN extensions
    ELSE IF Trim(ext) = Empty THEN extensions
    ELSE <<Trim(ext)>> \o extensions

\* _appendExt
AppendExt(extensions, ext) ==
    IF ext = Null \/ ext = Undefined THEN extensions
    ELSE IF Trim(ext) = Empty THEN extensions
    ELSE Append(extensions, Trim(ext))

\* if (options.fileExtension) extensions.push(options.fileExtension)
PushOverride(options) ==
    IF Truthy(options.fileExtension) THEN <<options.fileExtension>> ELSE <<>>

\* '.' + the last '.'-separated part of name, appended when there is a '.'
AppendSuffix(extensions, name) ==
    IF SplitHasParts(name, ".")
    THEN AppendExt(extensions, <<".">> \o SplitLast(name, "."))
    ELSE extensions

\* convertLocal: the candidate list
LocalExtensions(path, options) == AppendSuffix(PushOverride(options), path)

\* convertResponse: the candidates guessed from the content type
AppendMimeType(extensions, response) ==
    LET contentType == SplitFirst(OrEmpty(response.contentType), ";")
    IN IF Truthy(contentType) /\ Truthy(Lookup(contentType))
       THEN AppendExt(extensions, <<".">> \o Lookup(contentType))
       ELSE extensions

\* convertResponse: the candidate read from the content disposition
AppendDisposition(extensions, response) ==
    LET filenameMatch == FilenameMatch(OrEmpty(response.contentDisposition))
    IN IF filenameMatch # Null
       THEN AppendSuffix(extensions, RemoveQuotes(filenameMatch))
       ELSE extensions

\* convertResponse: the candidate read from the path of response.config.url
AppendUrlPath(extensions, response) ==
    IF UrlParses(OrEmpty(response.url))
    THEN AppendSuffix(extensions, UrlPathname(response.url))
    ELSE extensions

\* convertResponse: the candidate list
ResponseExtensions(response, options) ==
    AppendUrlPath(AppendDisposition(AppendMimeType(PushOverride(options), response), response), response)

\* convert: a string that names a URL goes to convertUrl, any other to convertLocal
Route(source) ==
    IF \E scheme \in {SchemeHttp, SchemeHttps, SchemeFile} : StartsWith(source, scheme)
    THEN "convertUrl" ELSE "convertLocal"

(* ------------------------------------------------------------------ *)
(* Inputs                                                              *)
(* ------------------------------------------------------------------ *)

LocalPaths == {PathHtml, PathZzz, PathPdf, PathNoExt}
Urls == {UrlPhp, UrlWikiPhp, UrlHtml, UrlPdf, UrlYouTube}
Overrides == {Undefined, DotHtml, UpperDotHtm, SpacedDotHtml}
\* what is at a local path: nothing, a text (HTML) file, a PDF file
LocalFiles == {"missing", "text", "pdf"}

Headers(contentType, contentDisposition) ==
    [contentType |-> contentType, contentDisposition |-> contentDisposition]

\* response.headers: content-type and content-disposition
HeaderSets == {Headers(Undefined, Undefined), Headers(TextHtml, Undefined),
               Headers(TextHtmlCharset, Undefined), Headers(BareHtml, Undefined),
               Headers(Undefined, Attachment)}

\* what response.data holds: a text (HTML) body or a PDF body
Bodies == {"text", "pdf"}

\* an AxiosResponse: its headers, response.config?.url and response.data
Response(headers, url, data) ==
    [contentType |-> headers.contentType,
     contentDisposition |-> headers.contentDisposition, url |-> url, data |-> data]

NoResponse == Response(Headers(Undefined, Undefined), Undefined, "text")

\* the textContent a converter produces, before normalization
RawTexts == {TextPlainBody, TextBlankRuns, TextCrLf, TextWhitespaceOnly}

\* ConvertOptions
Options(fileExtension, url) == [fileExtension |-> fileExtension, url |-> url]

(* ------------------------------------------------------------------ *)
(* Outcomes of a call                                                  *)
(* ------------------------------------------------------------------ *)

NoOutcome ==
    [kind |-> "none", by |-> NoConverter, textContent |-> <<>>, origin |-> "",
     errors |-> <<>>, extensions |-> <<>>]

\* a DocumentConverterResult, returned by the converter `by`
Result(by, textContent) ==
    [NoOutcome EXCEPT !.kind = "result", !.by = by, !.textContent = textContent]

\* new Error(...): origin names the operation that failed
GenericError(origin) == [NoOutcome EXCEPT !.kind = "Error", !.origin = origin]

\* new FileConversionException(`... recognized as ${extensions}. ...:${errorTrace}`)
FileConversionException(extensions, errorTrace) ==
    [NoOutcome EXCEPT !.kind = "FileConversionException",
                      !.errors = errorTrace, !.extensions = extensions]

\* new UnsupportedFormatException(`... The formats ${extensions} are not supported.`)
UnsupportedFormatException(extensions) ==
    [NoOutcome EXCEPT !.kind = "UnsupportedFormatException", !.extensions = extensions]

(* ------------------------------------------------------------------ *)
(* State                                                               *)
(* ------------------------------------------------------------------ *)

VARIABLES
    pageConverters,  \* this.pageConverters of the instance in use
    registered,      \* history: the converters in the order they were registered
    pc,              \* where the current call stands
    entry,           \* "lib": a caller of the class; "cli": convertSource
    api,             \* the adapter convert() chose
    source,          \* the path or URL given, Undefined for a response
    options,         \* the options the adapter was called with
    response,        \* the AxiosResponse of convertUrl / convertResponse
    file,            \* what is at localPath
    extensions,      \* the candidate list handed to _convert
    convertOptions,  \* the options handed to _convert
    extIdx,          \* _convert: position in extensionsToTry (1-based)
    convIdx,         \* _convert: position of the iterator over pageConverters
    errorTrace,      \* _convert: the errors that errorTrace holds
    calls,           \* history: the converter invocations of this dispatch
    thrown,          \* history: the errors converters threw in this dispatch
    acceptedAt,      \* history: index in calls of the invocation that returned a result
    normalized,      \* history: the invocations whose textContent was normalized, and the text
    dispatched,      \* history: the outcome of the try block of convertResponse / of _convert
    outcome,         \* what the call settled with
    fetched,         \* history: "no", "ok", "failed"
    tempDir,         \* "none", "exists", "removed"
    tempFile,        \* "none", "exists", "removed"
    cleanup,         \* history: which removals were attempted and which failed
    cliOutput,       \* convertSource: options.output is given
    cliCaught,       \* convertSource: the kind of error its catch block got, "none" if none
    exitCode         \* the exit code of the process, -1 while it runs

callVars == <<entry, api, source, options, response, file, extensions, convertOptions>>
loopVars == <<extIdx, convIdx, errorTrace, calls, thrown, acceptedAt, normalized>>
tempVars == <<tempDir, tempFile, cleanup>>
cliVars == <<cliOutput, cliCaught, exitCode>>
registryVars == <<pageConverters, registered>>

vars == <<registryVars, pc, callVars, loopVars, dispatched, outcome, fetched, tempVars, cliVars>>

NoCleanup == [unlinkTried |-> FALSE, unlinkFailed |-> FALSE,
              rmdirTried |-> FALSE, rmdirFailed |-> FALSE]

Init ==
    /\ pageConverters = Constructor
    /\ registered = ConstructorOrder
    /\ pc = "idle"
    /\ entry = "lib"
    /\ api = "none"
    /\ source = Undefined
    /\ options = Options(Undefined, Undefined)
    /\ response = NoResponse
    /\ file = "missing"
    /\ extensions = <<>>
    /\ convertOptions = Options(Undefined, Undefined)
    /\ extIdx = 1
    /\ convIdx = 1
    /\ errorTrace = <<>>
    /\ calls = <<>>
    /\ thrown = {}
    /\ acceptedAt = 0
    /\ normalized = <<>>
    /\ dispatched = NoOutcome
    /\ outcome = NoOutcome
    /\ fetched = "no"
    /\ tempDir = "none"
    /\ tempFile = "none"
    /\ cleanup = NoCleanup
    /\ cliOutput = FALSE
    /\ cliCaught = "none"
    /\ exitCode = -1

(* ------------------------------------------------------------------ *)
(* The registry                                                        *)
(* ------------------------------------------------------------------ *)

CustomCount == Len(registered) - Len(ConstructorOrder)

\* registerPageConverter(converter), called between two conversions
RegisterPageConverter ==
    /\ pc = "idle"
    /\ CustomCount < MaxCustom
    /\ pageConverters' = Unshift(pageConverters, Custom(CustomCount + 1))
    /\ registered' = Append(registered, Custom(CustomCount + 1))
    /\ UNCHANGED <<pc, callVars, loopVars, dispatched, outcome, fetched, tempVars, cliVars>>

(* ------------------------------------------------------------------ *)
(* Entry points: convert, convertLocal, convertUrl, convertResponse    *)
(* ------------------------------------------------------------------ *)

\* convert(source, opts) for a string: convertLocal runs up to the first
\* converter invocation of _convert, convertUrl up to the fetch
ConvertString(src, opts, f) ==
    /\ source' = src
    /\ options' = opts
    /\ api' = Route(src)
    /\ response' = NoResponse
    /\ IF Route(src) = "convertLocal"
       THEN /\ file' = f
            /\ extensions' = LocalExtensions(src, opts)
            /\ convertOptions' = opts
            /\ pc' = "loop"
       ELSE /\ f = "missing"
            /\ file' = f
            /\ UNCHANGED <<extensions, convertOptions>>
            /\ pc' = "fetch"
    /\ UNCHANGED <<loopVars, dispatched, outcome, fetched, tempVars>>

\* a caller of the class converts a path or a URL
LibConvert ==
    /\ pc = "idle"
    /\ \E src \in LocalPaths \cup Urls, ov \in Overrides, f \in LocalFiles :
          ConvertString(src, Options(ov, Undefined), f)
    /\ entry' = "lib"
    /\ UNCHANGED <<registryVars, cliVars>>

\* convertResponse(response, options), up to the creation of the directory
ConvertResponse(resp, opts) ==
    /\ response' = resp
    /\ options' = opts
    /\ extensions' = ResponseExtensions(resp, opts)
    /\ pc' = "mkdtemp"

\* a caller of the class converts an AxiosResponse it holds
LibConvertResponse ==
    /\ pc = "idle"
    /\ \E h \in HeaderSets, u \in Urls \cup {Undefined}, d \in Bodies, ov \in Overrides :
          ConvertResponse(Response(h, u, d), Options(ov, Undefined))
    /\ entry' = "lib"
    /\ api' = "convertResponse"
    /\ UNCHANGED <<registryVars, source, file, convertOptions, loopVars, dispatched,
                   outcome, fetched, tempVars, cliVars>>

\* a fetch failure reported as a typed conversion failure
FetchFailure_Typed == FileConversionException(<<>>, <<>>)

\* throw new Error(`Failed to fetch URL: ${error}`)
FetchFailure == GenericError("fetch")

\* convertUrl: axios.get rejects
FetchFails ==
    /\ pc = "fetch"
    /\ fetched' = "failed"
    /\ outcome' = FetchFailure
    /\ pc' = "settled"
    /\ UNCHANGED <<registryVars, callVars, loopVars, dispatched, tempVars, cliVars>>

\* convertUrl: axios.get resolves; convertResponse(response, {...options, url})
FetchSucceeds ==
    /\ pc = "fetch"
    /\ fetched' = "ok"
    /\ \E h \in HeaderSets, u \in {source, Undefined}, d \in Bodies :
          ConvertResponse(Response(h, u, d), [options EXCEPT !.url = source])
    /\ UNCHANGED <<registryVars, entry, api, source, file, convertOptions, loopVars,
                   dispatched, outcome, tempVars, cliVars>>

\* return await this.convertResponse(...): the catch block wraps every rejection
ConvertUrlReturn_Awaited(o) == IF o.kind = "result" THEN o ELSE GenericError("fetch")

\* convertUrl returns the promise of convertResponse without awaiting it: its
\* catch block does not see what convertResponse rejects with
ConvertUrlReturn(o) == o

\* what the call settles with once convertResponse / _convert has ended with o
Settle(o) == IF api = "convertUrl" THEN ConvertUrlReturn(o) ELSE o

(* ------------------------------------------------------------------ *)
(* convertResponse: the temporary file                                 *)
(* ------------------------------------------------------------------ *)

\* mkdtemp rejects: nothing was created, the error reaches the caller
MkdtempFails ==
    /\ pc = "mkdtemp"
    /\ outcome' = Settle(GenericError("mkdtemp"))
    /\ pc' = "settled"
    /\ UNCHANGED <<registryVars, callVars, loopVars, dispatched, fetched, tempVars, cliVars>>

MkdtempSucceeds ==
    /\ pc = "mkdtemp"
    /\ tempDir' = "exists"
    /\ pc' = "writeFile"
    /\ UNCHANGED <<registryVars, callVars, loopVars, dispatched, outcome, fetched,
                   tempFile, cleanup, cliVars>>

\* a cleanup that runs after a success only, not in a finally block
AfterTry_OnSuccessOnly(o) == IF o.kind = "result" THEN "unlink" ELSE "settled"

\* where convertResponse goes when its try block ends: the finally block
AfterTry(o) == "unlink"

\* writeFile rejects (it may have created the file already)
WriteFileFails ==
    /\ pc = "writeFile"
    /\ \E partial \in {"none", "exists"} : tempFile' = partial
    /\ dispatched' = GenericError("writeFile")
    /\ pc' = AfterTry(dispatched')
    /\ outcome' = IF pc' = "settled" THEN Settle(dispatched') ELSE outcome
    /\ UNCHANGED <<registryVars, callVars, loopVars, fetched, tempDir, cleanup, cliVars>>

\* writeFile resolves; _convert(tempPath, extensions, {...options, url: response.config?.url})
\* runs up to its first converter invocation
WriteFileSucceeds ==
    /\ pc = "writeFile"
    /\ tempFile' = "exists"
    /\ file' = response.data
    /\ convertOptions' = [options EXCEPT !.url = response.url]
    /\ pc' = "loop"
    /\ UNCHANGED <<registryVars, entry, api, source, options, response, extensions,
                   loopVars, dispatched, outcome, fetched, tempDir, cleanup, cliVars>>

(* ------------------------------------------------------------------ *)
(* The dispatch engine: _convert                                       *)
(* ------------------------------------------------------------------ *)

\* const extensionsToTry = [...extensions, null]
ExtensionsToTry == Append(extensions, Null)

\* hints that keep the caller's fileExtension when there is no candidate
ConverterOptions_KeepsOverride(opts, ext) ==
    IF ext = Null THEN opts ELSE [opts EXCEPT !.fileExtension = ext]

\* const converterOptions = { ...options } with fileExtension overwritten
ConverterOptions(opts, ext) ==
    IF ext = Null THEN [opts EXCEPT !.fileExtension = Undefined]
    ELSE [opts EXCEPT !.fileExtension = ext]

\* the iterators of the two loops name this trial: call converter.convert
InvokeConverter ==
    /\ pc = "loop"
    /\ extIdx <= Len(ExtensionsToTry)
    /\ convIdx <= Len(pageConverters)
    /\ calls' = Append(calls, [converter |-> pageConverters[convIdx],
                               round |-> extIdx, position |-> convIdx,
                               hints |-> ConverterOptions(convertOptions, ExtensionsToTry[extIdx]),
                               registry |-> pageConverters])
    /\ pc' = "converting"
    /\ UNCHANGED <<registryVars, callVars, extIdx, convIdx, errorTrace, thrown, acceptedAt,
                   normalized, dispatched, outcome, fetched, tempVars, cliVars>>

CurrentCall == calls[Len(calls)]

\* _convert ends with o: convertLocal settles with it, convertResponse
\* leaves its try block
EndDispatch(o) ==
    /\ dispatched' = o
    /\ pc' = IF api = "convertLocal" THEN "settled" ELSE AfterTry(o)
    /\ outcome' = IF pc' = "settled" THEN Settle(o) ELSE outcome

\* a test of the trace that is always true: errorTrace.length >= 0
Exhausted_AnyTrace(trace, exts) ==
    IF Len(trace) >= 0 THEN FileConversionException(exts, trace)
    ELSE UnsupportedFormatException(exts)

\* what _convert throws when both loops have ended
Exhausted(trace, exts) ==
    IF Len(trace) > 0 THEN FileConversionException(exts, trace)
    ELSE UnsupportedFormatException(exts)

\* loops nested the other way: every extension for one converter, then the
\* next converter
Continue_ConverterOuter ==
    IF extIdx + 1 <= Len(ExtensionsToTry)
    THEN /\ extIdx' = extIdx + 1
         /\ pc' = "loop"
         /\ UNCHANGED <<convIdx, dispatched, outcome>>
    ELSE IF convIdx + 1 <= Len(pageConverters)
    THEN /\ convIdx' = convIdx + 1
         /\ extIdx' = 1
         /\ pc' = "loop"
         /\ UNCHANGED <<dispatched, outcome>>
    ELSE /\ EndDispatch(Exhausted(errorTrace', extensions))
         /\ UNCHANGED <<extIdx, convIdx>>

\* the trial did not end the dispatch: the next converter, else the next
\* extension, else the end of both loops
Continue ==
    IF convIdx + 1 <= Len(pageConverters)
    THEN /\ convIdx' = convIdx + 1
         /\ pc' = "loop"
         /\ UNCHANGED <<extIdx, dispatched, outcome>>
    ELSE IF extIdx + 1 <= Len(ExtensionsToTry)
    THEN /\ extIdx' = extIdx + 1
         /\ convIdx' = 1
         /\ pc' = "loop"
         /\ UNCHANGED <<dispatched, outcome>>
    ELSE /\ EndDispatch(Exhausted(errorTrace', extensions))
         /\ UNCHANGED <<extIdx, convIdx>>

\* a result that is kept but does not end the loops
ConverterReturnsResult_KeepsLooping ==
    /\ pc = "converting"
    /\ "result" \in Behaviour(CurrentCall.converter, CurrentCall.hints, file)
    /\ acceptedAt' = Len(calls)
    /\ errorTrace' = errorTrace
    /\ Continue
    /\ UNCHANGED <<registryVars, callVars, calls, thrown, normalized, fetched, tempVars, cliVars>>

\* the converter resolves with a result: return it
ConverterReturnsResult ==
    /\ pc = "converting"
    /\ "result" \in Behaviour(CurrentCall.converter, CurrentCall.hints, file)
    /\ acceptedAt' = Len(calls)
    /\ \E raw \in RawTexts :
          /\ normalized' = Append(normalized, [call |-> Len(calls), raw |-> raw])
          /\ EndDispatch(Result(CurrentCall.converter, Normalize(raw)))
    /\ UNCHANGED <<registryVars, callVars, extIdx, convIdx, errorTrace, calls, thrown,
                   fetched, tempVars, cliVars>>

\* the converter resolves with null
ConverterReturnsNull ==
    /\ pc = "converting"
    /\ "null" \in Behaviour(CurrentCall.converter, CurrentCall.hints, file)
    /\ errorTrace' = errorTrace
    /\ Continue
    /\ UNCHANGED <<registryVars, callVars, calls, thrown, acceptedAt, normalized,
                   fetched, tempVars, cliVars>>

\* the error string of what a converter throws: each converter has its own
ErrorOf(converter) == converter

\* errorTrace = `\n\n${error}`
RecordError(trace, error) == <<error>>

\* a rejection that is not caught inside the loop: it ends _convert
ConverterThrows_Fatal ==
    /\ pc = "converting"
    /\ "throw" \in Behaviour(CurrentCall.converter, CurrentCall.hints, file)
    /\ thrown' = thrown \cup {ErrorOf(CurrentCall.converter)}
    /\ errorTrace' = RecordError(errorTrace, ErrorOf(CurrentCall.converter))
    /\ EndDispatch(FileConversionException(extensions, errorTrace'))
    /\ UNCHANGED <<registryVars, callVars, extIdx, convIdx, calls, acceptedAt, normalized,
                   fetched, tempVars, cliVars>>

\* the converter rejects: catch (error)
ConverterThrows ==
    /\ pc = "converting"
    /\ "throw" \in Behaviour(CurrentCall.converter, CurrentCall.hints, file)
    /\ thrown' = thrown \cup {ErrorOf(CurrentCall.converter)}
    /\ errorTrace' = RecordError(errorTrace, ErrorOf(CurrentCall.converter))
    /\ Continue
    /\ UNCHANGED <<registryVars, callVars, calls, acceptedAt, normalized, fetched,
                   tempVars, cliVars>>

(* ------------------------------------------------------------------ *)
(* convertResponse: the finally block                                  *)
(* ------------------------------------------------------------------ *)

\* unlink(tempPath) resolves
UnlinkSucceeds ==
    /\ pc = "unlink"
    /\ tempFile = "exists"
    /\ tempFile' = "removed"
    /\ cleanup' = [cleanup EXCEPT !.unlinkTried = TRUE]
    /\ pc' = "rmdir"
    /\ UNCHANGED <<registryVars, callVars, loopVars, dispatched, outcome, fetched,
                   tempDir, cliVars>>

\* unlink(tempPath) rejects (no such file, or the file system refuses): caught
UnlinkFails ==
    /\ pc = "unlink"
    /\ cleanup' = [cleanup EXCEPT !.unlinkTried = TRUE, !.unlinkFailed = TRUE]
    /\ pc' = "rmdir"
    /\ UNCHANGED <<registryVars, callVars, loopVars, dispatched, outcome, fetched,
                   tempDir, tempFile, cliVars>>

\* removals whose failure replaces the outcome of the try block
AfterFinally_Surfaces(o, removals) ==
    IF removals.unlinkFailed \/ removals.rmdirFailed THEN GenericError("cleanup") ELSE o

\* what convertResponse settles with after the finally block: the result it
\* returns or the error of the try block, whatever the removals did
AfterFinally(o, removals) == o

\* rmdir(tempDir) resolves: the directory is empty
RmdirSucceeds ==
    /\ pc = "rmdir"
    /\ tempFile # "exists"
    /\ tempDir' = "removed"
    /\ cleanup' = [cleanup EXCEPT !.rmdirTried = TRUE]
    /\ outcome' = Settle(AfterFinally(dispatched, cleanup'))
    /\ pc' = "settled"
    /\ UNCHANGED <<registryVars, callVars, loopVars, dispatched, fetched, tempFile, cliVars>>

\* rmdir(tempDir) rejects (not empty, or the file system refuses): caught
RmdirFails ==
    /\ pc = "rmdir"
    /\ cleanup' = [cleanup EXCEPT !.rmdirTried = TRUE, !.rmdirFailed = TRUE]
    /\ outcome' = Settle(AfterFinally(dispatched, cleanup'))
    /\ pc' = "settled"
    /\ UNCHANGED <<registryVars, callVars, loopVars, dispatched, fetched, tempDir,
                   tempFile, cliVars>>

(* ------------------------------------------------------------------ *)
(* The command line: convertSource                                     *)
(* ------------------------------------------------------------------ *)

\* convertSource: new MarkdownConverter(), then converter.convert(source, convertOptions)
CliConvertSource ==
    /\ pc = "idle"
    /\ pageConverters' = Constructor
    /\ registered' = ConstructorOrder
    /\ entry' = "cli"
    /\ \E src \in LocalPaths \cup Urls, ext \in Overrides, f \in LocalFiles :
          ConvertString(src, Options(ext, Undefined), f)
    /\ \E out \in BOOLEAN : cliOutput' = out
    /\ UNCHANGED <<cliCaught, exitCode>>

\* error instanceof class: the two exception classes are unrelated classes,
\* and a generic Error is an instance of neither
InstanceOf(kind, class) == kind = class

\* the two typed failures with their exit codes exchanged
ExitCode_Swapped(kind) ==
    IF InstanceOf(kind, "UnsupportedFormatException") THEN 3
    ELSE IF InstanceOf(kind, "FileConversionException") THEN 2
    ELSE 1

\* the catch block of convertSource: process.exit by the class of the error
ExitCode(kind) ==
    IF InstanceOf(kind, "UnsupportedFormatException") THEN 2
    ELSE IF InstanceOf(kind, "FileConversionException") THEN 3
    ELSE 1

\* convert rejected: the catch block
CliCatches ==
    /\ pc = "settled"
    /\ entry = "cli"
    /\ outcome.kind # "result"
    /\ cliCaught' = outcome.kind
    /\ exitCode' = ExitCode(outcome.kind)
    /\ pc' = "exited"
    /\ UNCHANGED <<registryVars, callVars, loopVars, dispatched, outcome, fetched,
                   tempVars, cliOutput>>

\* convert resolved and the output was printed or written: the process ends
CliSucceeds ==
    /\ pc = "settled"
    /\ entry = "cli"
    /\ outcome.kind = "result"
    /\ exitCode' = 0
    /\ pc' = "exited"
    /\ UNCHANGED <<registryVars, callVars, loopVars, dispatched, outcome, fetched,
                   tempVars, cliOutput, cliCaught>>

\* convert resolved and fs.writeFile(options.output, ...) rejects: the catch block
CliWriteOutputFails ==
    /\ pc = "settled"
    /\ entry = "cli"
    /\ outcome.kind = "result"
    /\ cliOutput
    /\ cliCaught' = "Error"
    /\ exitCode' = ExitCode("Error")
    /\ pc' = "exited"
    /\ UNCHANGED <<registryVars, callVars, loopVars, dispatched, outcome, fetched,
                   tempVars, cliOutput>>

(* ------------------------------------------------------------------ *)
(* The caller has the outcome: the next call starts from a clean slate  *)
(* ------------------------------------------------------------------ *)

Return ==
    /\ \/ pc = "settled" /\ entry = "lib"
       \/ pc = "exited"
    /\ pc' = "idle"
    /\ entry' = "lib"
    /\ api' = "none"
    /\ source' = Undefined
    /\ options' = Options(Undefined, Undefined)
    /\ response' = NoResponse
    /\ file' = "missing"
    /\ extensions' = <<>>
    /\ convertOptions' = Options(Undefined, Undefined)
    /\ extIdx' = 1
    /\ convIdx' = 1
    /\ errorTrace' = <<>>
    /\ calls' = <<>>
    /\ thrown' = {}
    /\ acceptedAt' = 0
    /\ normalized' = <<>>
    /\ dispatched' = NoOutcome
    /\ outcome' = NoOutcome
    /\ fetched' = "no"
    /\ tempDir' = "none"
    /\ tempFile' = "none"
    /\ cleanup' = NoCleanup
    /\ cliOutput' = FALSE
    /\ cliCaught' = "none"
    /\ exitCode' = -1
    /\ UNCHANGED registryVars

Next ==
    \/ RegisterPageConverter
    \/ LibConvert
    \/ LibConvertResponse
    \/ CliConvertSource
    \/ FetchFails
    \/ FetchSucceeds
    \/ MkdtempFails
    \/ MkdtempSucceeds
    \/ WriteFileFails
    \/ WriteFileSucceeds
    \/ InvokeConverter
    \/ ConverterReturnsResult
    \/ ConverterReturnsNull
    \/ ConverterThrows
    \/ UnlinkSucceeds
    \/ UnlinkFails
    \/ RmdirSucceeds
    \/ RmdirFails
    \/ CliCatches
    \/ CliSucceeds
    \/ CliWriteOutputFails
    \/ Return

Spec == Init /\ [][Next]_vars

(* ------------------------------------------------------------------ *)
(* Registration while a dispatch is suspended in a converter           *)
(* ------------------------------------------------------------------ *)

\* an iteration whose position moves with the element it stands on
IndexAfterUnshift_FollowsElement(index) == index + 1

\* the iterator of `for (const converter of this.pageConverters)` holds an
\* index into the array itself: unshift moves the elements, not the index
IndexAfterUnshift(index) == index

\* registerPageConverter(converter), called by other code of the caller while
\* _convert awaits converter.convert
RegisterDuringDispatch ==
    /\ pc = "converting"
    /\ CustomCount < MaxCustom
    /\ pageConverters' = Unshift(pageConverters, Custom(CustomCount + 1))
    /\ registered' = Append(registered, Custom(CustomCount + 1))
    /\ convIdx' = IndexAfterUnshift(convIdx)
    /\ UNCHANGED <<pc, callVars, extIdx, errorTrace, calls, thrown, acceptedAt, normalized,
                   dispatched, outcome, fetched, tempVars, cliVars>>

\* the paths converted while other code registers converters
ConcurrentPaths == {PathHtml, PathZzz}

\* a caller of the class converts a local path: convertLocal(path)
LibConvertLocal ==
    /\ pc = "idle"
    /\ \E src \in ConcurrentPaths, f \in LocalFiles :
          ConvertString(src, Options(Undefined, Undefined), f)
    /\ entry' = "lib"
    /\ UNCHANGED <<registryVars, cliVars>>

NextConcurrent ==
    \/ LibConvertLocal
    \/ InvokeConverter
    \/ RegisterDuringDispatch
    \/ ConverterReturnsResult
    \/ ConverterReturnsNull
    \/ ConverterThrows
    \/ Return

SpecConcurrent == Init /\ [][NextConcurrent]_vars

(* ------------------------------------------------------------------ *)
(* The normalization of _convert, applied to every short text          *)
(* ------------------------------------------------------------------ *)

\* the characters of the texts: a letter, blanks, the two line-end characters
Alphabet == {"a", " ", "\t", "\r", "\n"}

\* every text of at most MaxLen characters
Texts == UNION {[1..n -> Alphabet] : n \in 0..MaxLen}

\* a converter has produced the text t; nothing else has happened
InitNormalize ==
    /\ pageConverters = Constructor
    /\ registered = ConstructorOrder
    /\ pc = "normalizing"
    /\ entry = "lib"
    /\ api = "none"
    /\ source = Undefined
    /\ options = Options(Undefined, Undefined)
    /\ response = NoResponse
    /\ file = "text"
    /\ extensions = <<>>
    /\ convertOptions = Options(Undefined, Undefined)
    /\ extIdx = 1
    /\ convIdx = 1
    /\ errorTrace = <<>>
    /\ calls = <<>>
    /\ thrown = {}
    /\ acceptedAt = 0
    /\ normalized = <<>>
    /\ \E t \in Texts : dispatched = Result(NoConverter, t)
    /\ outcome = NoOutcome
    /\ fetched = "no"
    /\ tempDir = "none"
    /\ tempFile = "none"
    /\ cleanup = NoCleanup
    /\ cliOutput = FALSE
    /\ cliCaught = "none"
    /\ exitCode = -1

\* result.textContent = result.textContent.split(...).map(...).join(...).replace(...)
NormalizeTextContent ==
    /\ pc = "normalizing"
    /\ Len(normalized) < MaxApplications
    /\ normalized' = Append(normalized, [call |-> 0, raw |-> dispatched.textContent])
    /\ dispatched' = [dispatched EXCEPT !.textContent = Normalize(dispatched.textContent)]
    /\ UNCHANGED <<registryVars, pc, callVars, extIdx, convIdx, errorTrace, calls, thrown,
                   acceptedAt, outcome, fetched, tempVars, cliVars>>

NextNormalize == NormalizeTextContent

SpecNormalize == InitNormalize /\ [][NextNormalize]_vars


(* ------------------------------------------------------------------ *)
(* Properties                                                          *)
(* ------------------------------------------------------------------ *)

Range(seq) == {seq[k] : k \in 1..Len(seq)}

\* the call has settled (and, from the command line, the process may have ended)
Settled == pc \in {"settled", "exited"}

\* _convert ran and has ended
DispatchEnded == calls # <<>> /\ dispatched.kind # "none"

\* the place of a converter in the order of registration
RegIndex(converter) == CHOOSE k \in 1..Len(registered) : registered[k] = converter

\* C1: a converter registered after another one is invoked before it in every
\* extension round of a later dispatch: whenever a converter is invoked, every
\* converter registered after it has already been invoked in the same round.
C1_LastRegisteredFirst ==
    \A b \in 1..Len(calls) : \A k \in 1..Len(registered) :
        k > RegIndex(calls[b].converter) =>
            \E a \in 1..(b - 1) : /\ calls[a].round = calls[b].round
                                  /\ calls[a].converter = registered[k]

\* C1 witness: in the second round of a dispatch the converter registered last
\* by the caller ran, then the one registered before it, then a built-in.
C1_Witness ==
    \E a, b, c \in 1..Len(calls) :
        /\ a < b /\ b < c
        /\ calls[a].round = 2 /\ calls[b].round = 2 /\ calls[c].round = 2
        /\ calls[a].converter = Custom(2)
        /\ calls[b].converter = Custom(1)
        /\ calls[c].converter = PdfConverter

\* C2: once an invocation has returned a result, it is the last invocation of
\* the dispatch, the loops are left, and the call settles with that result.
C2_FirstMatchWins ==
    acceptedAt # 0 =>
        /\ acceptedAt = Len(calls)
        /\ pc \notin {"loop", "converting"}
        /\ dispatched.kind = "result"
        /\ dispatched.by = calls[acceptedAt].converter
        /\ Settled => outcome = dispatched

\* C2 witness: a result was returned while converters of the round and a later
\* round were still untried.
C2_Witness ==
    /\ pc = "settled"
    /\ acceptedAt # 0
    /\ calls[acceptedAt].position < Len(pageConverters)
    /\ calls[acceptedAt].round < Len(ExtensionsToTry)
    /\ outcome.kind = "result"

\* C3: when converters threw and none returned a result, the dispatch raises
\* FileConversionException whose message contains the error string of every
\* invocation that threw.
C3_EveryErrorReported ==
    (DispatchEnded /\ thrown # {} /\ acceptedAt = 0) =>
        /\ dispatched.kind = "FileConversionException"
        /\ \A error \in thrown : error \in Range(dispatched.errors)

\* C4 (as amended): when every invocation returned null, the dispatch raises
\* UnsupportedFormatException, which carries the candidate list as it was
\* built, without the no-extension sentinel, and the call settles with it
\* unless it came through convertResponse, whose outcome C7 covers.
C4_UnsupportedCarriesCandidates ==
    (DispatchEnded /\ thrown = {} /\ acceptedAt = 0) =>
        /\ dispatched = UnsupportedFormatException(extensions)
        /\ Len(calls) = Len(ExtensionsToTry) * Len(pageConverters)
        /\ Settled => outcome = dispatched

\* C4 witness: a.zzz, declined by every converter in both rounds.
C4_Witness ==
    /\ pc = "settled"
    /\ source = PathZzz
    /\ extensions = <<<<".", "z", "z", "z">>>>
    /\ thrown = {}
    /\ outcome.kind = "UnsupportedFormatException"

\* C4 as stated: the failure carries the attempted list, the no-extension
\* sentinel included.
C4_CarriesSentinel ==
    (DispatchEnded /\ thrown = {} /\ acceptedAt = 0) =>
        /\ dispatched.kind = "UnsupportedFormatException"
        /\ dispatched.extensions = ExtensionsToTry

\* C5: a throw does not end the dispatch: when no invocation returned a result,
\* every converter was tried in every round, whatever threw; and when a later
\* invocation returned a result, the call settles with the result, which
\* carries no error text.
C5_ThrowIsNotFatal ==
    /\ (DispatchEnded /\ acceptedAt = 0) =>
           Len(calls) = Len(ExtensionsToTry) * Len(pageConverters)
    /\ (DispatchEnded /\ thrown # {} /\ acceptedAt # 0) =>
           /\ dispatched.kind = "result"
           /\ dispatched.errors = <<>>
           /\ Settled => outcome = dispatched

\* C5 witness: a converter threw, a later one returned a result, the call
\* settled with it.
C5_Witness ==
    /\ pc = "settled"
    /\ thrown # {}
    /\ acceptedAt > 1
    /\ outcome.kind = "result"

\* the state part of C6 as amended
C6_RemovalsAttempted ==
    (Settled /\ tempDir # "none") =>
        /\ cleanup.unlinkTried
        /\ cleanup.rmdirTried
        /\ (~cleanup.unlinkFailed /\ ~cleanup.rmdirFailed) =>
               (tempFile = "removed" /\ tempDir = "removed")

\* C6 (as amended): a convertResponse call that created its directory has, when
\* it settles, attempted to remove the file and then the directory, on every
\* exit path, and both are gone unless a removal failed; no converter is
\* invoked once the removal of the file has been attempted.
C6_CleanupOnEveryExit ==
    /\ []C6_RemovalsAttempted
    /\ [][cleanup.unlinkTried => (calls' = calls \/ pc' = "idle")]_vars

\* C6 witness: the write of the response body failed and both were removed.
C6_Witness ==
    /\ pc = "settled"
    /\ dispatched.origin = "writeFile"
    /\ tempFile = "removed"
    /\ tempDir = "removed"

\* C6 as stated: when the call settles, the file and the directory are gone.
C6_TempRemoved ==
    (Settled /\ tempDir # "none") => (tempFile # "exists" /\ tempDir = "removed")

\* C7: failed removals are not surfaced: convertResponse settles with the
\* outcome of its try block, and after a failed removal of the file the
\* removal of the directory is still attempted.
C7_CleanupErrorsSwallowed ==
    (Settled /\ cleanup.unlinkTried) =>
        /\ outcome = dispatched
        /\ cleanup.unlinkFailed => cleanup.rmdirTried

\* C7 witness: both removals failed after a successful dispatch.
C7_Witness ==
    /\ pc = "settled"
    /\ cleanup.unlinkFailed
    /\ cleanup.rmdirFailed
    /\ outcome.kind = "result"

\* C8: when the fetch fails, convertUrl rejects with the generic error, no
\* converter was invoked and no temporary directory or file was created.
C8_FetchFailureIsGeneric ==
    fetched = "failed" =>
        /\ Settled
        /\ outcome.kind = "Error"
        /\ outcome.origin = "fetch"
        /\ calls = <<>>
        /\ tempDir = "none"
        /\ tempFile = "none"

\* C8 witness: a fetch has failed.
C8_Witness == fetched = "failed" /\ pc = "settled" /\ api = "convertUrl"

C10_HtmlByContentType ==
    (/\ Settled
     /\ DispatchEnded
     /\ SplitFirst(OrEmpty(response.contentType), ";") = TextHtml
     /\ response.url = UrlPhp
     /\ response.contentDisposition = Undefined
     /\ options.fileExtension = Undefined
     /\ pageConverters = Constructor) =>
        /\ DotHtml \in Range(extensions)
        /\ outcome.kind = "result"
        /\ outcome.by = HtmlConverter

\* C11: after a successful fetch, every converter invocation of a convertUrl
\* call receives hints whose url is the URL convertUrl was called with,
\* whatever response.config holds.
C11_HintsCarryOriginalUrl ==
    (api = "convertUrl" /\ fetched = "ok") =>
        \A k \in 1..Len(calls) : calls[k].hints.url = source

\* C12: on an instance that holds the built-ins only, the trials of every round
\* run PDF, YouTube, Wikipedia, HTML, plain text in this order, and a result
\* returned under an .html / .htm hint whose url is a Wikipedia URL is the
\* Wikipedia converter's.
C12_BuiltinTrialOrder ==
    registered = ConstructorOrder =>
        /\ \A k \in 1..Len(calls) :
              /\ calls[k].position = ((k - 1) % 5) + 1
              /\ calls[k].round = ((k - 1) \div 5) + 1
              /\ calls[k].converter =
                    <<PdfConverter, YouTubeConverter, WikipediaConverter,
                      HtmlConverter, PlainTextConverter>>[calls[k].position]
        /\ (/\ acceptedAt # 0
            /\ IsHtmlExtension(calls[acceptedAt].hints)
            /\ MatchesWikipedia(OrEmpty(calls[acceptedAt].hints.url))) =>
               /\ dispatched.by = WikipediaConverter
               /\ Settled => outcome.by = WikipediaConverter

\* C12 witness: a Wikipedia URL with the candidate .html: PDF and YouTube
\* declined, the Wikipedia converter returned the result, HTML was not tried.
C12_Witness ==
    /\ pc = "settled"
    /\ registered = ConstructorOrder
    /\ source = UrlWikiPhp
    /\ Len(calls) = 3
    /\ calls[3].hints.fileExtension = DotHtml
    /\ calls[3].hints.url = UrlWikiPhp
    /\ outcome.kind = "result"
    /\ outcome.by = WikipediaConverter

\* no line of t, the lines being what "\n" separates, ends in whitespace
NoTrailingWhitespace(t) ==
    \A k \in 1..Len(t) :
        (k = Len(t) \/ t[k + 1] = "\n") => t[k] \notin WhiteSpace \ {"\n"}

\* t holds no three consecutive newlines
NoBlankRun(t) ==
    \A k \in 1..(Len(t) - 2) : ~(t[k] = "\n" /\ t[k + 1] = "\n" /\ t[k + 2] = "\n")

\* C13: the textContent of a returned result, whichever converter produced
\* it, has no line that ends in whitespace and no run of three newlines; the
\* normalization ran once in the dispatch, on the text of the accepted
\* invocation, and it never ran in a dispatch that returned no result.
C13_ResultIsNormalized ==
    /\ dispatched.kind = "result" =>
          /\ NoTrailingWhitespace(dispatched.textContent)
          /\ NoBlankRun(dispatched.textContent)
          /\ Len(normalized) = 1
          /\ normalized[1].call = acceptedAt
          /\ dispatched.textContent = Normalize(normalized[1].raw)
          /\ Settled => outcome.textContent = dispatched.textContent
    /\ dispatched.kind # "result" => normalized = <<>>
    /\ \A n \in 1..Len(normalized) : calls[normalized[n].call].converter = dispatched.by

\* C13 witness: a converter registered by the caller produced a text with
\* trailing whitespace and blank runs after an earlier converter had thrown;
\* the call settled with the normalized text.
C13_Witness ==
    /\ pc = "settled"
    /\ outcome.kind = "result"
    /\ outcome.by.kind = "Custom"
    /\ thrown # {}
    /\ normalized[1].raw = TextBlankRuns
    /\ outcome.textContent = <<"a", "\n", "\n", "b">>

\* C14: the normalization is idempotent: applied to a text that is already the
\* result of the normalization, it returns that text unchanged.
C14_NormalizeIdempotent ==
    pc = "normalizing" =>
        \A n \in 1..Len(normalized) :
            /\ Normalize(Normalize(normalized[n].raw)) = Normalize(normalized[n].raw)
            /\ n >= 2 => /\ normalized[n].raw = Normalize(normalized[n - 1].raw)
                         /\ Normalize(normalized[n].raw) = normalized[n].raw
                         /\ n = Len(normalized) => dispatched.textContent = normalized[n].raw

\* C14 witness: a text with a whitespace-only line, a CR LF line end and a run
\* of blank lines was normalized twice, the first time to two newlines.
C14_Witness ==
    /\ pc = "normalizing"
    /\ Len(normalized) = 2
    /\ normalized[1].raw = <<" ", "\r", "\n", "\n", "\n">>
    /\ normalized[2].raw = <<"\n", "\n">>
    /\ dispatched.textContent = <<"\n", "\n">>

\* the state part of C15
C15_HintsOfTrial ==
    \A k \in 1..Len(calls) :
        /\ calls[k].hints.url = convertOptions.url
        /\ calls[k].round <= Len(extensions) =>
              calls[k].hints.fileExtension = extensions[calls[k].round]
        /\ calls[k].round = Len(extensions) + 1 =>
              calls[k].hints.fileExtension = Undefined

\* C15: the hints of every trial are the options given to _convert with
\* fileExtension alone replaced: by the candidate of the round, and by nothing
\* in the round without extension, override or not; no step of the dispatch
\* changes the options the caller gave or the options given to _convert.
C15_HintsAreACopy ==
    /\ []C15_HintsOfTrial
    /\ [][(pc = "loop" \/ pc = "converting") =>
             (options' = options /\ convertOptions' = convertOptions)]_vars

\* C15 witness: the caller gave the override .html for a.zzz; a trial of the
\* round without extension got no fileExtension, and the call has settled
\* with the caller's options as they were.
C15_Witness ==
    /\ pc = "settled"
    /\ source = PathZzz
    /\ options = Options(DotHtml, Undefined)
    /\ extensions = <<DotHtml, <<".", "z", "z", "z">>>>
    /\ \E k \in 1..Len(calls) :
          calls[k].round = 3 /\ calls[k].hints = Options(Undefined, Undefined)
    /\ \E k \in 1..Len(calls) :
          calls[k].round = 1 /\ calls[k].hints = Options(DotHtml, Undefined)

\* trial a comes before trial b in the order of (round, position)
LexLess(a, b) == a.round < b.round \/ (a.round = b.round /\ a.position < b.position)

\* C16: the trials of a dispatch are made in strictly increasing order of
\* (round, position), without a gap: the first is (1, 1), the converter after
\* position j is j + 1 of the same round, and a round starts when every
\* converter was tried in the round before; so no pair is tried twice. The
\* round without extension is the last one, the only one when there is no
\* candidate; it is reached whenever no earlier trial returned a result, and
\* the dispatch ends with the accepted result or, every pair tried, with one of
\* the two exceptions.
C16_TrialOrder ==
    /\ \A b \in 2..Len(calls) : \A a \in 1..(b - 1) : LexLess(calls[a], calls[b])
    /\ \A b \in 1..Len(calls) :
          /\ calls[b].round \in 1..(Len(extensions) + 1)
          /\ calls[b].position \in 1..Len(pageConverters)
          /\ calls[b].converter = pageConverters[calls[b].position]
          /\ b = 1 => (calls[b].round = 1 /\ calls[b].position = 1)
          /\ (b > 1 /\ calls[b].position > 1) =>
                /\ calls[b - 1].round = calls[b].round
                /\ calls[b - 1].position = calls[b].position - 1
          /\ (b > 1 /\ calls[b].position = 1) =>
                /\ calls[b - 1].round = calls[b].round - 1
                /\ calls[b - 1].position = Len(pageConverters)
          /\ calls[b].hints.fileExtension = Undefined <=> calls[b].round = Len(extensions) + 1
    /\ DispatchEnded =>
          /\ dispatched.kind \in {"result", "FileConversionException", "UnsupportedFormatException"}
          /\ dispatched.kind = "result" <=> acceptedAt # 0
          /\ acceptedAt # 0 => acceptedAt = Len(calls)
          /\ acceptedAt = 0 =>
                /\ Len(calls) = (Len(extensions) + 1) * Len(pageConverters)
                /\ calls[Len(calls)].round = Len(extensions) + 1
                /\ calls[Len(calls)].position = Len(pageConverters)
    /\ (pc = "loop" /\ api # "none") => (extIdx <= Len(extensions) + 1 /\ convIdx <= Len(pageConverters))

\* C16 witness: two candidates and seven converters: twenty-one trials in three
\* rounds, none returned a result, the dispatch ended with an exception.
C16_Witness ==
    /\ pc = "settled"
    /\ Len(extensions) = 2
    /\ Len(pageConverters) = 7
    /\ Len(calls) = 21
    /\ calls[8].round = 2 /\ calls[8].position = 1
    /\ calls[21].hints.fileExtension = Undefined
    /\ outcome.kind = "FileConversionException"

\* C17: every entry of the candidate list given to _convert, the override
\* included, is non-empty and has no whitespace at either end.
C17_CandidatesTrimmed ==
    \A k \in 1..Len(extensions) :
        extensions[k] # Empty /\ Trim(extensions[k]) = extensions[k]

\* how many of the candidates of a convertLocal call its path and override give
LocalSources ==
    (IF Truthy(options.fileExtension) THEN 1 ELSE 0)
    + (IF Includes(source, ".") THEN 1 ELSE 0)

\* the adapter of the call has built its candidate list
ListBuilt == api # "none" /\ pc # "fetch" /\ fetched # "failed"

\* C18 (as amended): the candidate list keeps the order of insertion, the
\* override first and the suffix of the path or of the URL path last, and keeps
\* duplicates: every source that gives a candidate gives an entry. A converter
\* is invoked once per round, so two invocations of it with the same extension
\* hint belong to two rounds whose candidates are the same string.
C18_InsertionOrderKept ==
    /\ (ListBuilt /\ Truthy(options.fileExtension)) =>
          (extensions # <<>> /\ extensions[1] = options.fileExtension)
    /\ api = "convertLocal" =>
          /\ Len(extensions) = LocalSources
          /\ Includes(source, ".") =>
                extensions[Len(extensions)] = <<".">> \o SplitLast(source, ".")
    /\ (ListBuilt /\ api # "convertLocal"
        /\ UrlParses(response.url) /\ Includes(UrlPathname(response.url), ".")) =>
          /\ extensions # <<>>
          /\ extensions[Len(extensions)] = <<".">> \o SplitLast(UrlPathname(response.url), ".")
    /\ \A b \in 2..Len(calls) : \A a \in 1..(b - 1) :
          (calls[a].converter = calls[b].converter /\ calls[a].hints = calls[b].hints) =>
              /\ calls[a].round < calls[b].round
              /\ ExtensionsToTry[calls[a].round] = ExtensionsToTry[calls[b].round]

\* C18 witness: the override .html on a.html gave the candidates .html, .html
\* and the HTML converter was invoked with the hint .html in both rounds.
C18_Witness ==
    /\ pc = "settled"
    /\ source = PathHtml
    /\ options.fileExtension = DotHtml
    /\ extensions = <<DotHtml, DotHtml>>
    /\ \E a, b \in 1..Len(calls) :
          /\ a < b
          /\ calls[a].converter = HtmlConverter /\ calls[b].converter = HtmlConverter
          /\ calls[a].hints.fileExtension = DotHtml /\ calls[b].hints.fileExtension = DotHtml

\* C18 as stated: no extension occurs twice in the candidate list and no
\* converter is invoked twice with the same extension hint.
C18_NoDuplicates ==
    /\ \A i, j \in 1..Len(extensions) : i # j => extensions[i] # extensions[j]
    /\ \A a, b \in 1..Len(calls) :
          (a # b /\ calls[a].converter = calls[b].converter) =>
              calls[a].hints.fileExtension # calls[b].hints.fileExtension

\* C19: when the fetch succeeded and the dispatch ended with one of the two
\* typed exceptions, convertUrl rejects with that exception, and the command
\* line exits with its code; the call settles with the 'Failed to fetch URL'
\* error only when the fetch failed.
C19_TypedFailurePassesThrough ==
    /\ (/\ Settled /\ api = "convertUrl" /\ fetched = "ok"
        /\ dispatched.kind \in {"UnsupportedFormatException", "FileConversionException"}) =>
          /\ outcome = dispatched
          /\ pc = "exited" => exitCode = ExitCode(dispatched.kind) /\ exitCode \in {2, 3}
    /\ (Settled /\ outcome.kind = "Error" /\ outcome.origin = "fetch") => fetched = "failed"

\* C19 witness: the URL was fetched, no converter took the response, and the
\* command line ended with the exit code of UnsupportedFormatException.
C19_Witness ==
    /\ pc = "exited"
    /\ api = "convertUrl"
    /\ fetched = "ok"
    /\ calls # <<>>
    /\ outcome.kind = "UnsupportedFormatException"
    /\ exitCode = 2

\* the registry when round r of the dispatch started: the first trial of a
\* round is made as the round starts
RoundStart(r) == calls[Min({k \in 1..Len(calls) : calls[k].round = r})].registry

\* the rounds of the dispatch that have run to their end
CompleteRounds ==
    {r \in {calls[k].round : k \in 1..Len(calls)} :
        \/ \E k \in 1..Len(calls) : calls[k].round > r
        \/ dispatched.kind \in {"UnsupportedFormatException", "FileConversionException"}}

\* no converter that was registered when a round started is skipped in it
NoneSkipped ==
    \A r \in CompleteRounds : \A c \in Range(RoundStart(r)) :
        \E k \in 1..Len(calls) : calls[k].round = r /\ calls[k].converter = c

\* C20 (as amended): with registrations made while a converter invocation is
\* awaited, the dispatch reads the registry as it is at each trial and goes on
\* at the next index: it skips no converter that was registered when the round
\* started, and after one registration it invokes the converter it has just
\* awaited once more in the same round; a converter is invoked twice in a
\* round only with a registration between the two invocations.
C20_NoneSkippedCurrentRepeated ==
    /\ NoneSkipped
    /\ \A k \in 1..Len(calls) : calls[k].converter = calls[k].registry[calls[k].position]
    /\ \A k \in 2..Len(calls) :
          calls[k].round = calls[k - 1].round =>
              /\ calls[k].position = calls[k - 1].position + 1
              /\ Len(calls[k].registry) = Len(calls[k - 1].registry) + 1 =>
                    calls[k].converter = calls[k - 1].converter
    /\ \A a, b \in 1..Len(calls) :
          (a < b /\ calls[a].round = calls[b].round /\ calls[a].converter = calls[b].converter) =>
              Len(calls[b].registry) > Len(calls[a].registry)

\* C20 witness: a converter was registered while the PDF converter was
\* awaited; the dispatch invoked the PDF converter again in the same round and
\* ended without a result, every converter tried.
C20_Witness ==
    /\ pc = "settled"
    /\ dispatched.kind = "UnsupportedFormatException"
    /\ \E k \in 1..(Len(calls) - 1) :
          /\ calls[k].round = calls[k + 1].round
          /\ calls[k].converter = PdfConverter
          /\ calls[k + 1].converter = PdfConverter
          /\ Len(calls[k + 1].registry) = Len(calls[k].registry) + 1

\* C20 as stated: every converter registered when a round started is invoked
\* in that round exactly once: none twice, none skipped.
C20_ExactlyOncePerRound ==
    /\ NoneSkipped
    /\ \A a, b \in 1..Len(calls) :
          (a < b /\ calls[a].round = calls[b].round) => calls[a].converter # calls[b].converter

====
